---- MODULE Spec2Model ----
(***************************************************************************)
(* Model of the akon OpenConnect harness:                                  *)
(*   - test_openconnect.c : main (the session driver) and                  *)
(*     process_auth_form_cb (the static form resolver);                    *)
(*   - akon-core/progress_shim.c : progress_shim (the progress sink).      *)
(* libopenconnect itself is external; it appears only as the calls main    *)
(* makes on it, with nondeterministic results, and as the caller of the    *)
(* auth-form callback while openconnect_obtain_cookie is running.          *)
(***************************************************************************)
EXTENDS Integers, Sequences, FiniteSets, TLC

(* ---------------- bounds ---------------- *)
\* longest auth form the engine presents (number of oc_form_opt nodes)
MaxFields == 2
\* number of progress_shim calls explored
MaxCalls == 3

(* ---------------- values ---------------- *)
\* an optional C value: None is "not written yet", Some(x) holds x
None == <<>>
Some(x) == <<x>>

\* a NULL char* value of opt->_value
NULL == "NULL"
\* a NULL opt->name: a one-element sequence no character string equals
NullName == <<"NULL">>

\* strings that strstr inspects are sequences of characters
S_user == <<"u", "s", "e", "r">>
S_name == <<"n", "a", "m", "e">>
S_pass == <<"p", "a", "s", "s">>
S_secret == <<"s", "e", "c", "r", "e", "t">>

\* the two credentials the callback hands out
IDENTITY == "vicwil"
SECRET == "test123"

\* field names the engine may present: NULL, one per pattern, one matching
\* both an identity and a secret pattern, one matching none
Names ==
    { NullName,
      S_user,
      S_name,
      S_pass,
      S_secret,
      S_user \o S_pass,
      <<"o", "t", "p">> }

\* oc_form_opt.type
Types == {"text", "password", "select"}
\* the allowed values of a select field
Choices == {"push", "sms"}
\* values a field may already carry when the form is presented
Presets == {NULL, "dflt"}

\* one oc_form_opt node
Field(n, t, v) ==
    [name |-> n, type |-> t,
     choices |-> IF t = "select" THEN Choices ELSE {},
     value |-> v]

Fields == {Field(n, t, v) : n \in Names, t \in Types, v \in Presets}

RECURSIVE SeqsUpTo(_, _)
SeqsUpTo(S, n) ==
    IF n = 0 THEN {<<>>}
    ELSE LET shorter == SeqsUpTo(S, n - 1)
         IN shorter \cup {Append(s, x) : s \in {t \in shorter : Len(t) = n - 1}, x \in S}

\* every form (linked list form->opts) of at most MaxFields fields
Forms == SeqsUpTo(Fields, MaxFields)

\* return codes of the engine's int-returning operations
RetCodes == {-1, 0, 1}

(* ---------------- progress_shim.c ---------------- *)
PRG_ERR == 0
PRG_INFO == 1
PRG_DEBUG == 2
PRG_TRACE == 3

\* levels handed to the shim: the four named ones and integers around them
Levels == -1 .. 4
\* formatted texts (the result of vfprintf's formatting)
Texts == {"m1", "m2"}

VARIABLES
    pc,        \* position of main
    vpn,       \* the object behind main's vpn pointer: "NULL", "live", "freed"
    ops,       \* engine operations main has invoked, in order, with result
    ret,       \* main's local ret (line 64)
    exitCode,  \* the value main returned
    err,       \* lines written to stderr
    out,       \* lines written to stdout by main or by progress_shim
    form0,     \* the form as the engine presented it to the callback
    form,      \* the same form after process_auth_form_cb worked on it
    cbOut,     \* stdout lines of the latest callback invocation
    cbRet,     \* return value of the latest callback invocation
    calls,     \* progress_shim invocations so far, <<level, text>> each
    buf,       \* per stream, what vfprintf has written and no fflush has drained
    callbacks  \* the callbacks handed to openconnect_vpninfo_new

vars ==
    <<pc, vpn, ops, ret, exitCode, err, out, form0, form, cbOut, cbRet, calls,
      buf, callbacks>>

driverVars == <<pc, vpn, ops, ret, exitCode, form0, form, cbOut, cbRet, callbacks>>

(* ---------------- test_openconnect.c: process_auth_form_cb ---------------- *)
\* strstr(haystack, needle) != NULL
strstr(h, n) ==
    \E i \in 0 .. (Len(h) - Len(n)) : SubSeq(h, i + 1, i + Len(n)) = n

\* FillField with the two tests in the other order
FillField_SecretFirst(opt) ==
    IF opt.name # NullName
    THEN IF strstr(opt.name, S_pass) \/ strstr(opt.name, S_secret)
         THEN [opt EXCEPT !.value = SECRET]
         ELSE IF strstr(opt.name, S_user) \/ strstr(opt.name, S_name)
              THEN [opt EXCEPT !.value = IDENTITY]
              ELSE opt
    ELSE opt

\* FillField that resets the value of a field no pattern matches
FillField_ClearUnmatched(opt) ==
    IF opt.name # NullName
    THEN IF strstr(opt.name, S_user) \/ strstr(opt.name, S_name)
         THEN [opt EXCEPT !.value = IDENTITY]
         ELSE IF strstr(opt.name, S_pass) \/ strstr(opt.name, S_secret)
              THEN [opt EXCEPT !.value = SECRET]
              ELSE [opt EXCEPT !.value = NULL]
    ELSE opt

\* FillField with two independent tests instead of if / else if
FillField_NoElse(opt) ==
    IF opt.name # NullName
    THEN LET first == IF strstr(opt.name, S_user) \/ strstr(opt.name, S_name)
                      THEN [opt EXCEPT !.value = IDENTITY]
                      ELSE opt
         IN IF strstr(opt.name, S_pass) \/ strstr(opt.name, S_secret)
            THEN [first EXCEPT !.value = SECRET]
            ELSE first
    ELSE opt

\* lines 12-19: the body of the loop for one option
FillField(opt) ==
    IF opt.name # NullName
    THEN IF strstr(opt.name, S_user) \/ strstr(opt.name, S_name)
         THEN [opt EXCEPT !.value = IDENTITY]
         ELSE IF strstr(opt.name, S_pass) \/ strstr(opt.name, S_secret)
              THEN [opt EXCEPT !.value = SECRET]
              ELSE opt
    ELSE opt

\* the stdout line printf("Field: %s\n", opt->name)
FieldLine(n) == <<"Field: ">> \o n

\* lines 11-20: for (opt = form->opts; opt; opt = opt->next), opt at index i
RECURSIVE cb_loop(_, _, _)
cb_loop(fm, i, o) ==
    IF i > Len(fm)
    THEN [form |-> fm, out |-> o]
    ELSE cb_loop([fm EXCEPT ![i] = FillField(fm[i])],
                 i + 1,
                 IF fm[i].name # NullName THEN Append(o, FieldLine(fm[i].name)) ELSE o)

\* process_auth_form_cb that aborts when a field is left without a value
process_auth_form_cb_AbortUnfilled(f) ==
    LET r == cb_loop(f, 1, << <<"Auth form callback called">> >>)
    IN [form |-> r.form, out |-> r.out,
        ret |-> IF \E i \in 1 .. Len(r.form) : r.form[i].value = NULL THEN 1 ELSE 0]

\* lines 6-22: the whole callback; ret is its return value
process_auth_form_cb(f) ==
    LET r == cb_loop(f, 1, << <<"Auth form callback called">> >>)
    IN [form |-> r.form, out |-> r.out, ret |-> 0]

(* ---------------- test_openconnect.c: main ---------------- *)
\* an entry of ops: the operation and what it returned (None while it runs)
Op(name, rc) == [op |-> name, rc |-> rc]

\* fprintf(stderr, msg); return 1;
Fail(msg) ==
    /\ err' = Append(err, msg)
    /\ exitCode' = Some(1)
    /\ pc' = "done"

\* InitSSL that does not test the return value
InitSSL_Unchecked ==
    /\ pc = "init_ssl"
    /\ out' = Append(out, "Initializing OpenConnect...")
    /\ \E r \in RetCodes : ops' = Append(ops, Op("init_ssl", Some(r)))
    /\ pc' = "vpninfo_new"
    /\ UNCHANGED <<vpn, ret, exitCode, err, form0, form, cbOut, cbRet, calls, buf, callbacks>>

\* lines 25-31
InitSSL ==
    /\ pc = "init_ssl"
    /\ out' = Append(out, "Initializing OpenConnect...")
    /\ \E r \in RetCodes :
         /\ ops' = Append(ops, Op("init_ssl", Some(r)))
         /\ IF r # 0
            THEN Fail("Failed to init SSL")
            ELSE /\ pc' = "vpninfo_new"
                 /\ UNCHANGED <<err, exitCode>>
    /\ UNCHANGED <<vpn, ret, form0, form, cbOut, cbRet, calls, buf, callbacks>>

\* lines 33-46
VpnInfoNew ==
    /\ pc = "vpninfo_new"
    /\ out' = Append(out, "Creating vpninfo...")
    /\ \E created \in BOOLEAN :
         IF created
         THEN /\ vpn' = "live"
              /\ callbacks' = [process_auth_form |-> "process_auth_form_cb",
                               progress |-> "NULL"]
              /\ ops' = Append(ops, Op("vpninfo_new", Some(0)))
              /\ pc' = "set_protocol"
              /\ UNCHANGED <<err, exitCode>>
         ELSE /\ vpn' = "NULL"
              /\ callbacks' = callbacks
              /\ ops' = Append(ops, Op("vpninfo_new", Some(-1)))
              /\ Fail("Failed to create vpninfo")
    /\ UNCHANGED <<ret, form0, form, cbOut, cbRet, calls, buf>>

\* SetProtocol that does not test the return value
SetProtocol_Unchecked ==
    /\ pc = "set_protocol"
    /\ out' = Append(out, "Setting protocol to f5...")
    /\ \E r \in RetCodes : ops' = Append(ops, Op("set_protocol", Some(r)))
    /\ pc' = "parse_url"
    /\ UNCHANGED <<vpn, ret, exitCode, err, form0, form, cbOut, cbRet, calls, buf, callbacks>>

\* lines 48-52
SetProtocol ==
    /\ pc = "set_protocol"
    /\ out' = Append(out, "Setting protocol to f5...")
    /\ \E r \in RetCodes :
         /\ ops' = Append(ops, Op("set_protocol", Some(r)))
         /\ IF r # 0
            THEN Fail("Failed to set protocol")
            ELSE /\ pc' = "parse_url"
                 /\ UNCHANGED <<err, exitCode>>
    /\ UNCHANGED <<vpn, ret, form0, form, cbOut, cbRet, calls, buf, callbacks>>

\* lines 54-58
ParseUrl ==
    /\ pc = "parse_url"
    /\ out' = Append(out, "Parsing URL...")
    /\ \E r \in RetCodes :
         /\ ops' = Append(ops, Op("parse_url", Some(r)))
         /\ IF r # 0
            THEN Fail("Failed to parse URL")
            ELSE /\ pc' = "disable_dtls"
                 /\ UNCHANGED <<err, exitCode>>
    /\ UNCHANGED <<vpn, ret, form0, form, cbOut, cbRet, calls, buf, callbacks>>

\* lines 60-61
DisableDtls ==
    /\ pc = "disable_dtls"
    /\ out' = Append(out, "Disabling DTLS...")
    /\ ops' = Append(ops, Op("disable_dtls", Some(0)))
    /\ pc' = "obtain_cookie"
    /\ UNCHANGED <<vpn, ret, exitCode, err, form0, form, cbOut, cbRet, calls, buf, callbacks>>

\* lines 63-64: the call of openconnect_obtain_cookie; control enters the engine
ObtainCookie ==
    /\ pc = "obtain_cookie"
    /\ out' = Append(out, "Obtaining cookie (this will make HTTPS requests)...")
    /\ ops' = Append(ops, Op("obtain_cookie", None))
    /\ pc' = "engine"
    /\ UNCHANGED <<vpn, ret, exitCode, err, form0, form, cbOut, cbRet, calls, buf, callbacks>>

\* openconnect_obtain_cookie returns r to main: line 64 assigns ret
Returned(r) ==
    /\ ops' = [ops EXCEPT ![Len(ops)] = Op("obtain_cookie", Some(r))]
    /\ ret' = Some(r)
    /\ pc' = "report"

\* inside openconnect_obtain_cookie: the engine presents a form to the callback
\* registered at line 38, which runs to completion
EnginePresentForm ==
    /\ pc = "engine"
    /\ callbacks.process_auth_form = "process_auth_form_cb"
    /\ \E f \in Forms :
         LET r == process_auth_form_cb(f)
         IN /\ form0' = f
            /\ form' = r.form
            /\ cbOut' = r.out
            /\ cbRet' = Some(r.ret)
    /\ pc' = "form_done"
    /\ UNCHANGED <<vpn, ops, ret, exitCode, err, out, calls, buf, callbacks>>

\* inside openconnect_obtain_cookie: the engine takes the callback's result;
\* 0 resubmits the filled form, nonzero aborts the negotiation
EngineResubmit ==
    /\ pc = "form_done"
    /\ form0' = <<>>
    /\ form' = <<>>
    /\ cbOut' = <<>>
    /\ cbRet' = None
    /\ IF cbRet = Some(0)
       THEN /\ pc' = "engine"
            /\ UNCHANGED <<ops, ret>>
       ELSE Returned(-1)
    /\ UNCHANGED <<vpn, exitCode, err, out, calls, buf, callbacks>>

\* openconnect_obtain_cookie returns its terminal signal
EngineReturn ==
    /\ pc = "engine"
    /\ \E r \in RetCodes : Returned(r)
    /\ UNCHANGED <<vpn, exitCode, err, out, form0, form, cbOut, cbRet, calls, buf, callbacks>>

\* line 65: printf("openconnect_obtain_cookie returned: %d\n", ret)
RetLine(r) == "openconnect_obtain_cookie returned: " \o ToString(r)

\* Report that prints the failure to stdout
Report_ToStdout ==
    /\ pc = "report"
    /\ LET r == ret[1]
       IN IF r # 0
          THEN out' = out \o <<RetLine(r), "Authentication failed">>
          ELSE out' = out \o <<RetLine(r), "Authentication successful!">>
    /\ err' = err
    /\ pc' = "free"
    /\ UNCHANGED <<vpn, ops, ret, exitCode, form0, form, cbOut, cbRet, calls, buf, callbacks>>

\* Report that already publishes the result, before teardown
Report_EarlyResult ==
    /\ pc = "report"
    /\ LET r == ret[1]
       IN IF r # 0
          THEN /\ out' = Append(out, RetLine(r))
               /\ err' = Append(err, "Authentication failed")
          ELSE /\ out' = out \o <<RetLine(r), "Authentication successful!">>
               /\ err' = err
    /\ exitCode' = ret
    /\ pc' = "free"
    /\ UNCHANGED <<vpn, ops, ret, form0, form, cbOut, cbRet, calls, buf, callbacks>>

\* Report that negotiates again after a failure
Report_Retry ==
    /\ pc = "report"
    /\ LET r == ret[1]
       IN IF r # 0
          THEN /\ out' = Append(out, RetLine(r))
               /\ err' = Append(err, "Authentication failed")
               /\ pc' = "obtain_cookie"
          ELSE /\ out' = out \o <<RetLine(r), "Authentication successful!">>
               /\ err' = err
               /\ pc' = "free"
    /\ UNCHANGED <<vpn, ops, ret, exitCode, form0, form, cbOut, cbRet, calls, buf, callbacks>>

\* Report that takes only a negative signal for a failure
Report_NegativeOnly ==
    /\ pc = "report"
    /\ LET r == ret[1]
       IN IF r < 0
          THEN /\ out' = Append(out, RetLine(r))
               /\ err' = Append(err, "Authentication failed")
          ELSE /\ out' = out \o <<RetLine(r), "Authentication successful!">>
               /\ err' = err
    /\ pc' = "free"
    /\ UNCHANGED <<vpn, ops, ret, exitCode, form0, form, cbOut, cbRet, calls, buf, callbacks>>

\* lines 65-71
Report ==
    /\ pc = "report"
    /\ LET r == ret[1]
       IN IF r # 0
          THEN /\ out' = Append(out, RetLine(r))
               /\ err' = Append(err, "Authentication failed")
          ELSE /\ out' = out \o <<RetLine(r), "Authentication successful!">>
               /\ err' = err
    /\ pc' = "free"
    /\ UNCHANGED <<vpn, ops, ret, exitCode, form0, form, cbOut, cbRet, calls, buf, callbacks>>

\* VpnInfoFree that releases the handle a second time
VpnInfoFree_Twice ==
    /\ pc = "free"
    /\ vpn' = "freed"
    /\ ops' = ops \o <<Op("vpninfo_free", Some(0)), Op("vpninfo_free", Some(0))>>
    /\ exitCode' = ret
    /\ pc' = "done"
    /\ UNCHANGED <<ret, err, out, form0, form, cbOut, cbRet, calls, buf, callbacks>>

\* lines 73-74
VpnInfoFree ==
    /\ pc = "free"
    /\ vpn' = "freed"
    /\ ops' = Append(ops, Op("vpninfo_free", Some(0)))
    /\ exitCode' = ret
    /\ pc' = "done"
    /\ UNCHANGED <<ret, err, out, form0, form, cbOut, cbRet, calls, buf, callbacks>>

Init ==
    /\ pc = "init_ssl"
    /\ vpn = "NULL"
    /\ ops = <<>>
    /\ ret = None
    /\ exitCode = None
    /\ err = <<>>
    /\ out = <<>>
    /\ form0 = <<>>
    /\ form = <<>>
    /\ cbOut = <<>>
    /\ cbRet = None
    /\ calls = <<>>
    /\ buf = [stdout |-> <<>>, stderr |-> <<>>]
    /\ callbacks = [process_auth_form |-> "NULL", progress |-> "NULL"]

Next ==
    \/ InitSSL
    \/ VpnInfoNew
    \/ SetProtocol
    \/ ParseUrl
    \/ DisableDtls
    \/ ObtainCookie
    \/ EnginePresentForm
    \/ EngineResubmit
    \/ EngineReturn
    \/ Report
    \/ VpnInfoFree

Spec == Init /\ [][Next]_vars

\* main always runs on and the engine always takes its next step; which step
\* the engine takes (another form, or returning) is left to the engine
FairSpec == Spec /\ WF_vars(Next)

(* ---------------- progress_shim.c: progress_shim ---------------- *)
\* Route that sends every level up to PRG_ERR to stderr
Route_UpToErr(level) == IF level <= PRG_ERR THEN "stderr" ELSE "stdout"

\* line 21: out = (level == PRG_ERR) ? stderr : stdout
Route(level) == IF level = PRG_ERR THEN "stderr" ELSE "stdout"

\* progress_shim without the fflush of line 27
progress_shim_NoFlush(level, text) ==
    /\ buf' = [buf EXCEPT ![Route(level)] = Append(@, text)]
    /\ calls' = Append(calls, <<level, text>>)
    /\ UNCHANGED <<err, out>>
    /\ UNCHANGED driverVars

\* lines 14-28: one call, formatting already applied to text; vfprintf adds
\* the text to the stream's buffer and fflush drains that buffer
progress_shim(level, text) ==
    /\ IF Route(level) = "stderr"
       THEN /\ err' = err \o buf.stderr \o <<text>>
            /\ out' = out
       ELSE /\ out' = out \o buf.stdout \o <<text>>
            /\ err' = err
    /\ buf' = [buf EXCEPT ![Route(level)] = <<>>]
    /\ calls' = Append(calls, <<level, text>>)
    /\ UNCHANGED driverVars

ShimCall ==
    /\ Len(calls) < MaxCalls
    /\ \E level \in Levels, text \in Texts : progress_shim(level, text)

ShimNext == ShimCall

ShimSpec == Init /\ [][ShimNext]_vars

(* ---------------- a session whose progress callback is progress_shim ---------------- *)
\* wrapper.h declares progress_shim for the caller that hands it to
\* openconnect_vpninfo_new; that caller is not part of these sources, so the
\* session below is the one spec.md section 6 describes: both callbacks
\* registered at creation, the engine calling them from inside negotiate.

\* the forms of the spec's scenarios: no field, and username + password
SinkForms ==
    { <<>>,
      <<Field(S_user \o S_name, "text", NULL),
        Field(S_pass \o <<"w", "o", "r", "d">>, "password", NULL)>> }

\* control is inside negotiate, on a live handle with both callbacks registered
SinkInit ==
    /\ pc = "engine"
    /\ vpn = "live"
    /\ ops = <<Op("init_ssl", Some(0)), Op("vpninfo_new", Some(0)),
               Op("set_protocol", Some(0)), Op("parse_url", Some(0)),
               Op("disable_dtls", Some(0)), Op("obtain_cookie", None)>>
    /\ ret = None
    /\ exitCode = None
    /\ err = <<>>
    /\ out = <<>>
    /\ form0 = <<>>
    /\ form = <<>>
    /\ cbOut = <<>>
    /\ cbRet = None
    /\ calls = <<>>
    /\ buf = [stdout |-> <<>>, stderr |-> <<>>]
    /\ callbacks = [process_auth_form |-> "process_auth_form_cb",
                    progress |-> "progress_shim"]

\* the engine emits a progress message: it calls the registered callback
SinkEmit ==
    /\ pc = "engine"
    /\ callbacks.progress = "progress_shim"
    /\ Len(calls) < MaxCalls
    /\ \E level \in Levels, text \in Texts : progress_shim(level, text)

\* the engine presents a form to the form resolver
SinkPresentForm ==
    /\ pc = "engine"
    /\ callbacks.process_auth_form = "process_auth_form_cb"
    /\ \E f \in SinkForms :
         LET r == process_auth_form_cb(f)
         IN /\ form0' = f
            /\ form' = r.form
            /\ cbOut' = r.out
            /\ cbRet' = Some(r.ret)
    /\ pc' = "form_done"
    /\ UNCHANGED <<vpn, ops, ret, exitCode, err, out, calls, buf, callbacks>>

SinkNext ==
    \/ SinkEmit
    \/ SinkPresentForm
    \/ EngineResubmit

SinkSpec == SinkInit /\ [][SinkNext]_vars

(* ---------------- reading the state ---------------- *)
\* the lifecycle state of the session, read off main's position
State ==
    CASE pc \in {"init_ssl", "vpninfo_new"} -> "None"
      [] pc \in {"set_protocol", "parse_url"} -> "Created"
      [] pc \in {"disable_dtls", "obtain_cookie"} -> "Configured"
      [] pc \in {"engine", "form_done", "report", "free"} -> "Negotiating"
      [] pc = "done" -> "Terminated"

Rank ==
    CASE State = "None" -> 0
      [] State = "Created" -> 1
      [] State = "Configured" -> 2
      [] State = "Negotiating" -> 3
      [] State = "Terminated" -> 4

\* how often main invoked the named engine operation
Count(name) == Cardinality({i \in 1 .. Len(ops) : ops[i].op = name})

\* the operations invoked on the session handle, in order
HandleOps ==
    LET onHandle == SelectSeq(ops, LAMBDA o : o.op # "init_ssl" /\ o # [op |-> "vpninfo_new", rc |-> Some(-1)])
    IN [i \in 1 .. Len(onHandle) |-> onHandle[i].op]

Order ==
    <<"vpninfo_new", "set_protocol", "parse_url", "disable_dtls", "obtain_cookie", "vpninfo_free">>

IsPrefix(s, t) == Len(s) <= Len(t) /\ \A i \in 1 .. Len(s) : s[i] = t[i]

\* openconnect_vpninfo_new returned a handle in this run
SessionCreated == \E i \in 1 .. Len(ops) : ops[i] = Op("vpninfo_new", Some(0))

\* some engine operation of this run reported failure
FailurePath == \E i \in 1 .. Len(ops) : ops[i].rc # None /\ ops[i].rc # Some(0)

\* set-protocol or parse-URL reported failure
ConfigFailed ==
    \E i \in 1 .. Len(ops) :
        ops[i].op \in {"set_protocol", "parse_url"} /\ ops[i].rc # Some(0)

MatchesIdentity(n) == n # NullName /\ (strstr(n, S_user) \/ strstr(n, S_name))
MatchesSecret(n) == n # NullName /\ (strstr(n, S_pass) \/ strstr(n, S_secret))

\* the "Field:" lines of the named fields of f, in the order of f
FieldLines(f) ==
    LET named == SelectSeq(f, LAMBDA o : o.name # NullName)
    IN [i \in 1 .. Len(named) |-> FieldLine(named[i].name)]

\* the callback has returned and the engine has not yet taken the form back
CallbackReturned == pc = "form_done"

\* field i carries a value the resolver provided
Provided(i) == form[i].value \in {IDENTITY, SECRET}

(* ---------------- properties ---------------- *)

\* C1: whenever main has returned in a run in which the session handle was
\* created, openconnect_vpninfo_free has been called exactly once on it.
C1_FreedOnEveryReturn ==
    (pc = "done" /\ SessionCreated) => (Count("vpninfo_free") = 1 /\ vpn = "freed")

\* C2: whenever main has returned on a failure path (some engine operation
\* reported failure), at least one line has been written to stderr.
C2_ErrorBeforeFailureReturn ==
    (pc = "done" /\ FailurePath) => Len(err) >= 1

C2_Witness ==
    /\ pc = "done"
    /\ ret = Some(-1)
    /\ err = <<"Authentication failed">>

\* C3: once set-protocol or parse-URL has failed, main has reported the failure
\* and returned nonzero and negotiate is never called; negotiate is only called
\* after set-protocol and parse-URL both returned 0.
C3_NoNegotiateAfterConfigFailure ==
    /\ ConfigFailed =>
         /\ Count("obtain_cookie") = 0
         /\ pc = "done"
         /\ exitCode = Some(1)
         /\ Len(err) >= 1
    /\ \A i \in 1 .. Len(ops) :
         ops[i].op = "obtain_cookie" =>
           /\ \E j \in 1 .. i - 1 : ops[j] = Op("set_protocol", Some(0))
           /\ \E j \in 1 .. i - 1 : ops[j] = Op("parse_url", Some(0))

C3_Witness ==
    /\ pc = "done"
    /\ Len(ops) = 4
    /\ ops[4] = Op("parse_url", Some(1))
    /\ err = <<"Failed to parse URL">>

\* C4 as stated: after the callback returns, the fields were visited in order,
\* every named field matching "user"/"name" holds the identity value, every
\* named field matching "pass"/"secret" holds the secret value, and every
\* other field is as the engine presented it.
C4_AsStated ==
    CallbackReturned =>
      /\ cbOut = << <<"Auth form callback called">> >> \o FieldLines(form0)
      /\ Len(form) = Len(form0)
      /\ \A i \in 1 .. Len(form) :
           LET n == form0[i].name
           IN /\ MatchesIdentity(n) => form[i].value = IDENTITY
              /\ MatchesSecret(n) => form[i].value = SECRET
              /\ ~(MatchesIdentity(n) \/ MatchesSecret(n)) =>
                   form[i].value = form0[i].value

\* C4 amended: after the callback returns, the fields were visited in order,
\* the fields holding a provided value are exactly the named fields matching
\* one of the four patterns; those matching "user"/"name" hold the identity
\* value, those matching "pass"/"secret" and neither "user" nor "name" hold
\* the secret value, and every other field is as the engine presented it.
C4_ResolvedFields ==
    CallbackReturned =>
      /\ cbOut = << <<"Auth form callback called">> >> \o FieldLines(form0)
      /\ Len(form) = Len(form0)
      /\ \A i \in 1 .. Len(form) :
           LET n == form0[i].name
           IN /\ Provided(i) <=> (MatchesIdentity(n) \/ MatchesSecret(n))
              /\ MatchesIdentity(n) => form[i].value = IDENTITY
              /\ (MatchesSecret(n) /\ ~MatchesIdentity(n)) => form[i].value = SECRET
              /\ ~(MatchesIdentity(n) \/ MatchesSecret(n)) =>
                   form[i].value = form0[i].value

C4_Witness ==
    /\ CallbackReturned
    /\ Len(form) = 2
    /\ form0[1].name = S_user \o S_pass
    /\ form[1].value = IDENTITY
    /\ form0[2].name = S_secret
    /\ form[2].value = SECRET

\* C5: whenever the callback has returned having given a select field a value
\* outside the field's allowed values, its return value is nonzero.
C5_AbortOnOutOfSetChoice ==
    (CallbackReturned /\
       \E i \in 1 .. Len(form) :
          /\ form[i].type = "select"
          /\ form[i].value # form0[i].value
          /\ form[i].value \notin form[i].choices)
    => cbRet # Some(0)

\* the text of every call in cs, in call order
TextsOf(cs) == [i \in 1 .. Len(cs) |-> cs[i][2]]

\* the calls made with level PRG_ERR, and all the others
ErrCalls == SelectSeq(calls, LAMBDA c : c[1] = PRG_ERR)
OtherCalls == SelectSeq(calls, LAMBDA c : c[1] # PRG_ERR)

\* C6: stderr holds exactly the texts of the calls made with level PRG_ERR and
\* stdout exactly the texts of all other calls, each in call order, so every
\* call wrote to exactly one of the two streams.
C6_RoutedBySeverity ==
    /\ err = TextsOf(ErrCalls)
    /\ out = TextsOf(OtherCalls)
    /\ Len(err) + Len(out) = Len(calls)

C6_Witness ==
    /\ Len(calls) = 3
    /\ calls[1][1] = PRG_ERR
    /\ calls[2][1] = -1
    /\ calls[3][1] = PRG_TRACE
    /\ Len(err) = 1
    /\ Len(out) = 2

\* C7: the operations invoked on the handle always form a prefix of
\* create, set-protocol, parse-URL, disable-DTLS, negotiate, destroy; the
\* lifecycle state never moves back; Terminated is never left; nothing is
\* invoked once the handle is destroyed.
C7_LifecycleForward ==
    /\ [](IsPrefix(HandleOps, Order))
    /\ [][Rank' >= Rank]_vars
    /\ [][State = "Terminated" => State' = "Terminated"]_vars
    /\ [][vpn = "freed" => ops' = ops]_vars

C7_Witness ==
    /\ State = "Terminated"
    /\ HandleOps = Order
    /\ vpn = "freed"

C9_NegotiationTerminates == (pc = "engine") ~> (pc = "done")

\* C10: negotiate is invoked at most once per run, and a run whose negotiate
\* returned nonzero ends with exactly the failure report and the teardown.
C10_NoImplicitRetry ==
    /\ Count("obtain_cookie") <= 1
    /\ (ret # None /\ ret # Some(0)) =>
         /\ pc \in {"report", "free", "done"}
         /\ pc = "done" =>
              /\ HandleOps = Order
              /\ err = <<"Authentication failed">>
              /\ exitCode = ret

C10_Witness ==
    /\ pc = "done"
    /\ ret = Some(1)
    /\ Count("obtain_cookie") = 1
    /\ Count("vpninfo_free") = 1

\* C11: openconnect_init_ssl is the first engine operation of a run and is
\* invoked exactly once; when it fails, no session is created and no other
\* engine operation is invoked.
C11_InitSslOnceAndFirst ==
    /\ Count("init_ssl") = (IF pc = "init_ssl" THEN 0 ELSE 1)
    /\ Len(ops) >= 1 => ops[1].op = "init_ssl"
    /\ (Len(ops) >= 1 /\ ops[1].rc # Some(0)) =>
         /\ Len(ops) = 1
         /\ vpn = "NULL"
         /\ ~SessionCreated
         /\ pc = "done"
         /\ exitCode = Some(1)

C11_Witness ==
    /\ pc = "done"
    /\ ops = <<Op("init_ssl", Some(-1))>>
    /\ err = <<"Failed to init SSL">>

\* C13: once the session is created, both an auth-form callback and a
\* progress callback are registered with it.
C13_BothCallbacksRegistered ==
    SessionCreated =>
      /\ callbacks.process_auth_form # "NULL"
      /\ callbacks.progress # "NULL"

C14_EmptyFormSucceeds ==
    CallbackReturned =>
      /\ cbRet = Some(0)
      /\ form0 = <<>> =>
           /\ form = <<>>
           /\ cbOut = << <<"Auth form callback called">> >>

C14_Witness ==
    /\ CallbackReturned
    /\ form0 = <<>>
    /\ form = <<>>
    /\ cbRet = Some(0)

\* the line is among those main wrote to the stream
Wrote(stream, line) == \E i \in 1 .. Len(stream) : stream[i] = line

\* C15: once main has returned after negotiate, it returned negotiate's
\* signal, it reported success exactly when the signal is 0 and failure
\* exactly when it is not.
C15_OutcomeFollowsSignal ==
    (pc = "done" /\ ret # None) =>
      /\ exitCode = ret
      /\ Wrote(out, "Authentication successful!") <=> ret = Some(0)
      /\ Wrote(err, "Authentication failed") <=> ret # Some(0)

C15_Witness ==
    /\ pc = "done"
    /\ ret = Some(0)
    /\ exitCode = Some(0)
    /\ Wrote(out, "Authentication successful!")
    /\ err = <<>>

\* C16: after the callback returns, the form has the same fields in the same
\* order with the same name, kind and allowed values, and every field that is
\* unnamed or matches no pattern has the value it was presented with.
C16_OnlyMatchedValuesChange ==
    CallbackReturned =>
      /\ Len(form) = Len(form0)
      /\ \A i \in 1 .. Len(form) :
           /\ form[i].name = form0[i].name
           /\ form[i].type = form0[i].type
           /\ form[i].choices = form0[i].choices
           /\ ~(MatchesIdentity(form0[i].name) \/ MatchesSecret(form0[i].name)) =>
                form[i] = form0[i]

C16_Witness ==
    /\ CallbackReturned
    /\ Len(form) = 2
    /\ form0[1] = Field(<<"o", "t", "p">>, "select", "dflt")
    /\ form[1] = form0[1]
    /\ form0[2] = Field(S_pass, "password", "dflt")
    /\ form[2] = Field(S_pass, "password", SECRET)

\* C17: after the callback returns, a field whose name matches "user" or
\* "name" holds the identity value even if it also matches "pass" or
\* "secret", and a field holds the secret value only if its name matches
\* "pass" or "secret" and neither "user" nor "name".
C17_IdentityBeforeSecret ==
    CallbackReturned =>
      \A i \in 1 .. Len(form) :
         /\ MatchesIdentity(form0[i].name) => form[i].value = IDENTITY
         /\ form[i].value = SECRET =>
              (MatchesSecret(form0[i].name) /\ ~MatchesIdentity(form0[i].name))

C17_Witness ==
    /\ CallbackReturned
    /\ Len(form) = 1
    /\ form0[1].name = S_user \o S_pass
    /\ form0[1].value = NULL
    /\ form[1].value = IDENTITY

====
